---- MODULE Spec2Model ----
(***************************************************************************)
(* Model of the calipso coordinate / altitude-grid / tensor-filter code.   *)
(*                                                                         *)
(*   src/data/coordinate.py   class Coordinate                             *)
(*   src/data/tools.py        make_altitudes, create_extinction_tensor,    *)
(*                            filter_tensor                                *)
(*                                                                         *)
(* Four specifications share the variables; each leaves the variables of   *)
(* the other three at their idle values:                                   *)
(*   SpecAlt    the loop of make_altitudes, one iteration per step         *)
(*   SpecCoord  two values compared with Coordinate's ==, < and <=         *)
(*   SpecFilter one call of filter_tensor on a freshly created tensor      *)
(*   SpecGrid   any sequence of sortby / .loc / transpose / filter_tensor   *)
(*                                                                         *)
(* Real numbers are exact rationals over a fixed denominator:              *)
(*   altitudes of make_altitudes  in 1/100 km  (0.06 -> 6, 20.2 -> 2020)   *)
(*   latitudes of Coordinate      in 1/LatDen degree                       *)
(*   Coordinate.cantor            in 1/(361*LatDen)                        *)
(* Binary floating-point rounding is not modelled.                         *)
(***************************************************************************)
EXTENDS Integers, Sequences, FiniteSets, TLC

VARIABLES pc, alt, alts, step, altitudes_out,
          self, other, cmp,
          data_tensor, call, result

vars == <<pc, alt, alts, step, altitudes_out, self, other, cmp,
          data_tensor, call, result>>

altVars == <<alt, alts, step, altitudes_out>>
coordVars == <<self, other, cmp>>
tensorVars == <<data_tensor, call, result>>

Idle == "idle"

(***************************************************************************)
(* make_altitudes                                           tools.py 62-78 *)
(***************************************************************************)

\* while len(alts) < 399
NumAltitudes == 399

StepForThreeBands(a) ==
    IF 0 <= a /\ a < 820 THEN 3
    ELSE IF 820 <= a /\ a < 2020 THEN 6
    ELSE 18

\* the if / elif / else of the loop body, in 1/100 km
StepFor(a) ==
    IF 0 <= a /\ a < 820 THEN 6
    ELSE IF 820 <= a /\ a < 2020 THEN 6
    ELSE 18

FlipForgotten(s) == s

\* np.flip on a one-dimensional array
Flip(s) == [i \in 1..Len(s) |-> s[Len(s) + 1 - i]]

AltIdle ==
    /\ alt = 0
    /\ alts = <<>>
    /\ step = 0
    /\ altitudes_out = <<>>

CoordIdle ==
    /\ self = Idle
    /\ other = Idle
    /\ cmp = Idle

TensorIdle ==
    /\ data_tensor = Idle
    /\ call = Idle
    /\ result = Idle

\* alt = 0; alts = [alt]; step = 0
InitAlt ==
    /\ pc = "loop"
    /\ alt = 0
    /\ alts = <<0>>
    /\ step = 0
    /\ altitudes_out = <<>>
    /\ CoordIdle
    /\ TensorIdle

\* one iteration of the while loop
AltLoop ==
    /\ pc = "loop"
    /\ Len(alts) < NumAltitudes
    /\ step' = StepFor(alt)
    /\ alt' = alt + StepFor(alt)
    /\ alts' = Append(alts, alt + StepFor(alt))
    /\ UNCHANGED <<pc, altitudes_out, coordVars, tensorVars>>

\* the loop condition fails: return np.flip(np.array(alts))
AltReturn ==
    /\ pc = "loop"
    /\ ~(Len(alts) < NumAltitudes)
    /\ altitudes_out' = Flip(alts)
    /\ pc' = "done"
    /\ UNCHANGED <<alt, alts, step, coordVars, tensorVars>>

NextAlt == AltLoop \/ AltReturn

SpecAlt == InitAlt /\ [][NextAlt]_vars

(***************************************************************************)
(* class Coordinate                                    coordinate.py 17-53 *)
(***************************************************************************)

\* latitudes are multiples of 1/LatDen degree
LatDen == 2

\* latitude numerators: both ends of [-90, 90], and values a fraction of a
\* degree, one degree and several degrees apart
LatNums == {-90 * LatDen, -1, 0, 1, 10 * LatDen, 10 * LatDen + 1,
            11 * LatDen, 90 * LatDen}

\* longitudes in whole degrees, both ends of [-180, 180] included
Lons == {-180, 0, 20, 180}

CantorDiv360(lat, lon) == (lat + 90 * LatDen) * 360 + (lon + 180) * LatDen

\* a, b = self.lat + 90, (self.lon + 180)/361 ; return a + b
\* the value returned, times 361 * LatDen
Cantor(lat, lon) == (lat + 90 * LatDen) * 361 + (lon + 180) * LatDen

\* __init__
Coordinate(latitude, longitude) ==
    [type |-> "Coordinate", lat |-> latitude, lon |-> longitude,
     cantor |-> Cantor(latitude, longitude)]

\* an int operand, in whole degrees
PyInt(n) == [type |-> "int", val |-> n]

\* an operand that is neither a Coordinate nor an int
PyFloat == [type |-> "float"]

Coordinates == {Coordinate(la, lo) : la \in LatNums, lo \in Lons}

Operands == Coordinates \cup {PyInt(n) : n \in {-90, 0, 10}} \cup {PyFloat}

\* a Python truth value; a method that falls off its end returns None
PyBool(b) == IF b THEN "True" ELSE "False"

\* __eq__
Eq(s, o) ==
    IF o.type = "Coordinate" THEN PyBool(s.lat = o.lat /\ s.lon = o.lon)
    ELSE IF o.type = "int" THEN PyBool(s.lat = o.val * LatDen)
    ELSE "None"

LtByCantor(s, o) ==
    IF o.type = "Coordinate" THEN PyBool(s.cantor < o.cantor)
    ELSE IF o.type = "int" THEN PyBool(s.lat < o.val * LatDen)
    ELSE "None"

\* __lt__
Lt(s, o) ==
    IF o.type = "Coordinate" THEN PyBool(s.lat < o.lat)
    ELSE IF o.type = "int" THEN PyBool(s.lat < o.val * LatDen)
    ELSE "None"

\* __le__ : self < other or self == other
Le(s, o) ==
    IF o.type = "Coordinate"
      THEN PyBool(Lt(s, o) = "True" \/ Eq(s, o) = "True")
    ELSE IF o.type = "int" THEN PyBool(s.lat <= o.val * LatDen)
    ELSE "None"

InitCoord ==
    /\ pc = "constructed"
    /\ self \in Coordinates
    /\ other \in Operands
    /\ cmp = Idle
    /\ AltIdle
    /\ TensorIdle

\* self == other, self < other, self <= other, and for a Coordinate operand
\* the same three with the operands exchanged
Compare ==
    /\ pc = "constructed"
    /\ cmp' = [eq |-> Eq(self, other),
               lt |-> Lt(self, other),
               le |-> Le(self, other),
               req |-> IF other.type = "Coordinate" THEN Eq(other, self) ELSE Idle,
               rlt |-> IF other.type = "Coordinate" THEN Lt(other, self) ELSE Idle,
               rle |-> IF other.type = "Coordinate" THEN Le(other, self) ELSE Idle]
    /\ pc' = "compared"
    /\ UNCHANGED <<self, other, altVars, tensorVars>>

NextCoord == Compare

SpecCoord == InitCoord /\ [][NextCoord]_vars

(***************************************************************************)
(* The tensor: an xarray.DataArray of two dimensions       tools.py 91-101 *)
(*                                                                         *)
(*   dims   the dimension names, in storage order                          *)
(*   lat    the coordinate of dimension 'lat'                              *)
(*   alt    the coordinate of dimension 'alt' (km)                         *)
(*   shape  the shape of the data array, in the order of dims              *)
(*   data   the masked array: <<i, j>> |-> [v, masked]                     *)
(***************************************************************************)

\* rows (latitude samples) of a tensor
MaxRows == 3

\* columns (altitude samples) of a tensor; make_altitudes gives 399
MaxCols == 3

\* latitudes of the samples, in degrees
LatVals == {-10, 0, 10}

\* bounds handed to filter_tensor: present in the axis, between two samples,
\* and outside every latitude
LatBoundVals == {-10, 5, 100}

\* altitude bounds (km): present in the axis, and between two samples
AltBoundVals == {0, 4, 6}

\* the (latitudes, altitudes) arguments of the steps of SpecGrid: a box that
\* keeps some cells, one that excludes every latitude, one that excludes
\* every altitude
GridBounds == {<<<<-10, 5>>, <<4, 0>>>>, <<<<100, 100>>, <<0, 4>>>>,
               <<<<-10, 100>>, <<6, 6>>>>}

MinOf(S) == CHOOSE x \in S : \A y \in S : x <= y

MaxOf(S) == CHOOSE x \in S : \A y \in S : y <= x

\* an exception leaving the call
Raise(kind) == [error |-> kind]

IsTensor(r) == "dims" \in DOMAIN r

\* a descending altitude axis of m samples ending at 0, 4 km apart: the shape
\* of make_altitudes' result, shortened
ShortAltitudes(m) == [j \in 1..m |-> 4 * (m - j)]

\* ma.masked_outside(variable, low, high): an n x m masked array whose cell
\* <<i, j>> holds a value of its own, the cells of `invalid` masked
SelectData(n, m, invalid) ==
    [shape |-> <<n, m>>,
     data |-> [p \in (1..n) \X (1..m) |->
                  [v |-> (p[1] - 1) * m + p[2], masked |-> p \in invalid]]]

\* xr.DataArray(extinction_data, dims=['lat', 'alt'], coords=[latitude, altitudes])
CreateExtinctionTensor(extinction_data, latitude, altitudes) ==
    IF extinction_data.shape # <<Len(latitude), Len(altitudes)>>
      THEN Raise("ValueError")
      ELSE [dims |-> <<"lat", "alt">>,
            lat |-> latitude,
            alt |-> altitudes,
            shape |-> extinction_data.shape,
            data |-> extinction_data.data]

\* the latitude columns read from a file, within the bounds
Latitudes == UNION {[1..n -> LatVals] : n \in 1..MaxRows}

\* the tensors create_extinction_tensor can return, within the bounds
CreatedTensors ==
    {CreateExtinctionTensor(SelectData(Len(latitude), m, invalid),
                            latitude, ShortAltitudes(m)) :
        latitude \in Latitudes, m \in 1..MaxCols, invalid \in {{}, {<<1, 1>>}}}

\* the coordinate of the dimension called name
Coord(t, name) == IF name = "lat" THEN t.lat ELSE t.alt

\* the position of the dimension called name
DimOf(t, name) == CHOOSE k \in 1..2 : t.dims[k] = name

\* s[idx[1]], s[idx[2]], ...
Take(s, idx) == [i \in 1..Len(idx) |-> s[idx[i]]]

IselDimDataOnly(t, k, idx) ==
    LET newshape == [t.shape EXCEPT ![k] = Len(idx)]
    IN  [t EXCEPT !.shape = newshape,
                  !.data = [p \in (1..newshape[1]) \X (1..newshape[2]) |->
                               t.data[IF k = 1 THEN <<idx[p[1]], p[2]>>
                                               ELSE <<p[1], idx[p[2]]>>]]]

\* DataArray.isel along dimension number k with the positions idx: the data
\* and the coordinate of that dimension are indexed alike
IselDim(t, k, idx) ==
    LET name == t.dims[k]
        newshape == [t.shape EXCEPT ![k] = Len(idx)]
    IN  [dims |-> t.dims,
         lat |-> IF name = "lat" THEN Take(t.lat, idx) ELSE t.lat,
         alt |-> IF name = "alt" THEN Take(t.alt, idx) ELSE t.alt,
         shape |-> newshape,
         data |-> [p \in (1..newshape[1]) \X (1..newshape[2]) |->
                      t.data[IF k = 1 THEN <<idx[p[1]], p[2]>>
                                      ELSE <<p[1], idx[p[2]]>>]]]

\* np.lexsort on one key: the stable ascending permutation of s
SortPerm(s) ==
    LET rank(i) == Cardinality({k \in 1..Len(s) :
                        s[k] < s[i] \/ (s[k] = s[i] /\ k < i)}) + 1
    IN  [r \in 1..Len(s) |-> CHOOSE i \in 1..Len(s) : rank(i) = r]

\* DataArray.sortby(name)
SortBy(t, name) == IselDim(t, DimOf(t, name), SortPerm(Coord(t, name)))

\* pandas Index.is_monotonic_increasing / is_monotonic_decreasing
IsMonotonicIncreasing(index) ==
    \A i \in 1..(Len(index) - 1) : index[i] <= index[i + 1]

IsMonotonicDecreasing(index) ==
    \A i \in 1..(Len(index) - 1) : index[i] >= index[i + 1]

\* pandas Index.get_slice_bound(label, side): a 0-based position, or KeyError.
\* A label found in the index gives the start (left) or the end (right) of its
\* run of positions, and KeyError if they are not one run; a label not found
\* is placed by searchsorted in a monotonic index, and is a KeyError otherwise.
GetSliceBound(index, label, side) ==
    LET locs == {i \in 1..Len(index) : index[i] = label}
        count(P(_)) == Cardinality({i \in 1..Len(index) : P(index[i])})
        lt(x) == x < label
        le(x) == x <= label
        gt(x) == x > label
        ge(x) == x >= label
    IN  IF locs # {}
          THEN IF locs = MinOf(locs)..MaxOf(locs)
                 THEN [ok |-> TRUE,
                       pos |-> IF side = "left" THEN MinOf(locs) - 1 ELSE MaxOf(locs)]
                 ELSE [ok |-> FALSE, pos |-> 0]
        ELSE IF IsMonotonicIncreasing(index)
          THEN [ok |-> TRUE, pos |-> IF side = "left" THEN count(lt) ELSE count(le)]
        ELSE IF IsMonotonicDecreasing(index)
          THEN [ok |-> TRUE, pos |-> IF side = "left" THEN count(gt) ELSE count(ge)]
        ELSE [ok |-> FALSE, pos |-> 0]

\* pandas Index.slice_indexer(start, stop) for the label slice slice(start, stop):
\* the positions start_slice+1 .. end_slice (1-based), none if they cross
SliceIndexer(index, start, stop) ==
    LET s == GetSliceBound(index, start, "left")
        e == GetSliceBound(index, stop, "right")
    IN  IF ~s.ok \/ ~e.ok
          THEN [ok |-> FALSE, idx |-> <<>>]
          ELSE [ok |-> TRUE,
                idx |-> [i \in 1..(IF e.pos > s.pos THEN e.pos - s.pos ELSE 0) |->
                            s.pos + i]]

\* a boolean indexer: the positions where the mask is True, in order
BoolIndexer(mask) ==
    LET kept == {i \in 1..Len(mask) : mask[i]}
        rank(i) == Cardinality({k \in kept : k <= i})
    IN  [r \in 1..Cardinality(kept) |-> CHOOSE i \in kept : rank(i) = r]

LocMaskOnDataOnly(t, key, mask) ==
    LET s == SliceIndexer(Coord(t, t.dims[1]), key[1], key[2])
    IN  IF ~s.ok THEN Raise("KeyError")
        ELSE IF Len(mask) # t.shape[2] THEN Raise("IndexError")
        ELSE IselDimDataOnly(IselDim(t, 1, s.idx), 2, BoolIndexer(mask))

\* DataArray.loc[slice(*key), mask]: the label slice applies to the first
\* dimension, the boolean mask to the second
Loc(t, key, mask) ==
    LET s == SliceIndexer(Coord(t, t.dims[1]), key[1], key[2])
    IN  IF ~s.ok THEN Raise("KeyError")
        ELSE IF Len(mask) # t.shape[2] THEN Raise("IndexError")
        ELSE IselDim(IselDim(t, 1, s.idx), 2, BoolIndexer(mask))

TransposeForgotten(t) == t

\* DataArray.transpose()
Transpose(t) ==
    [dims |-> <<t.dims[2], t.dims[1]>>,
     lat |-> t.lat,
     alt |-> t.alt,
     shape |-> <<t.shape[2], t.shape[1]>>,
     data |-> [p \in (1..t.shape[2]) \X (1..t.shape[1]) |-> t.data[<<p[2], p[1]>>]]]

AltitudesLowAsGiven(altitudes) == altitudes[1]

\* a, b = min(altitudes), max(altitudes)
AltitudesLow(altitudes) == MinOf({altitudes[1], altitudes[2]})

AltitudesHigh(altitudes) == MaxOf({altitudes[1], altitudes[2]})

\* altitudes_mask = [a <= alt and alt <= b for alt in sorted_alts]
AltitudesMask(sorted_alts, altitudes) ==
    [i \in 1..Len(sorted_alts) |->
        AltitudesLow(altitudes) <= sorted_alts[i]
            /\ sorted_alts[i] <= AltitudesHigh(altitudes)]

\* .loc[slice(*latitudes), altitudes_mask] on the sorted tensor
SelectRange(sorted, latitudes, altitudes) ==
    Loc(sorted, latitudes, AltitudesMask(sorted.alt, altitudes))

\* filter_tensor(data_tensor, latitudes, altitudes=altitudes, sortby=sortby)
filter_tensor(t, latitudes, altitudes, sortby) ==
    LET selected == SelectRange(SortBy(t, sortby), latitudes, altitudes)
    IN  IF IsTensor(selected) THEN Transpose(selected) ELSE selected

InitTensor ==
    /\ data_tensor \in CreatedTensors
    /\ call = Idle
    /\ result = Idle
    /\ AltIdle
    /\ CoordIdle

InitFilter ==
    /\ pc = "created"
    /\ InitTensor

\* one call of filter_tensor on the created tensor
FilterTensor ==
    /\ pc = "created"
    /\ \E latitudes \in LatBoundVals \X LatBoundVals,
          altitudes \in AltBoundVals \X AltBoundVals,
          sortby \in {"lat", "alt"} :
          /\ call' = [latitudes |-> latitudes, altitudes |-> altitudes,
                      sortby |-> sortby]
          /\ result' = filter_tensor(data_tensor, latitudes, altitudes, sortby)
    /\ pc' = "returned"
    /\ UNCHANGED <<data_tensor, altVars, coordVars>>

NextFilter == FilterTensor

SpecFilter == InitFilter /\ [][NextFilter]_vars

InitGrid ==
    /\ pc = "grid"
    /\ InitTensor

\* the outcome of one operation on the current grid: a new grid replaces it,
\* an exception leaves it as it was
GridStep(op, outcome) ==
    /\ pc = "grid"
    /\ call' = op
    /\ result' = IF IsTensor(outcome) THEN "ok" ELSE outcome.error
    /\ data_tensor' = IF IsTensor(outcome) THEN outcome ELSE data_tensor
    /\ UNCHANGED <<pc, altVars, coordVars>>

GridSortBy ==
    \E name \in {"lat", "alt"} : GridStep("sortby", SortBy(data_tensor, name))

GridSelectRange ==
    \E b \in GridBounds :
       GridStep("loc", SelectRange(data_tensor, b[1], b[2]))

GridTranspose == GridStep("transpose", Transpose(data_tensor))

GridFilterTensor ==
    \E b \in GridBounds, sortby \in {"lat", "alt"} :
       GridStep("filter_tensor", filter_tensor(data_tensor, b[1], b[2], sortby))

NextGrid == GridSortBy \/ GridSelectRange \/ GridTranspose \/ GridFilterTensor

SpecGrid == InitGrid /\ [][NextGrid]_vars

(***************************************************************************)
(* Properties of make_altitudes                                            *)
(***************************************************************************)

\* C5: make_altitudes returns exactly 399 values, strictly decreasing, the
\* first being the maximum altitude the loop attained and the last exactly 0.
C5_AltitudesDescending ==
    pc = "done" =>
        /\ Len(altitudes_out) = 399
        /\ \A i \in 1..(Len(altitudes_out) - 1) :
               altitudes_out[i] > altitudes_out[i + 1]
        /\ altitudes_out[1] = alt
        /\ \A k \in 1..Len(alts) : alts[k] <= altitudes_out[1]
        /\ altitudes_out[Len(altitudes_out)] = 0

\* make_altitudes has returned
C5_Witness == pc = "done" /\ Len(altitudes_out) = 399 /\ altitudes_out[1] > 2020

BothCoordinates == pc = "compared" /\ other.type = "Coordinate"

\* C6 as stated: a < b exactly when orderKey(a) < orderKey(b), and of two
\* distinct coordinates exactly one is less than the other.
C6_OrderByKey ==
    BothCoordinates =>
        /\ (cmp.lt = "True") <=> (self.cantor < other.cantor)
        /\ (self.lat # other.lat \/ self.lon # other.lon) =>
               ((cmp.lt = "True") # (cmp.rlt = "True"))

\* C6 amended: a < b exactly when latitude(a) < latitude(b); of two
\* coordinates with different latitudes exactly one is less than the other,
\* and of two with the same latitude neither is.
C6_OrderByLatitude ==
    BothCoordinates =>
        /\ (cmp.lt = "True") <=> (self.lat < other.lat)
        /\ (cmp.rlt = "True") <=> (other.lat < self.lat)
        /\ self.lat # other.lat => ((cmp.lt = "True") # (cmp.rlt = "True"))
        /\ self.lat = other.lat => (cmp.lt = "False" /\ cmp.rlt = "False")

\* two coordinates of one latitude and different longitudes were compared,
\* their keys differing
C6_Witness ==
    /\ BothCoordinates
    /\ self.lat = other.lat
    /\ self.cantor < other.cantor
    /\ cmp.lt = "False"

\* C7 as stated: latitude1 < latitude2 implies orderKey1 < orderKey2 whatever
\* the longitudes, latitudes not restricted to whole degrees.
C7_LatitudeDominates ==
    BothCoordinates =>
        (self.lat < other.lat => self.cantor < other.cantor)

\* C7 amended: the longitude term lies in [0, 1), so latitude2 - latitude1 >= 1
\* degree implies orderKey1 < orderKey2 whatever the longitudes.
C7_WholeDegreeDominates ==
    BothCoordinates =>
        /\ self.cantor - (self.lat + 90 * LatDen) * 361 >= 0
        /\ self.cantor - (self.lat + 90 * LatDen) * 361 < 361 * LatDen
        /\ (other.lat - self.lat >= LatDen => self.cantor < other.cantor)

\* latitudes exactly one degree apart, the lower one at longitude 180 and the
\* higher one at longitude -180
C7_Witness ==
    /\ BothCoordinates
    /\ other.lat - self.lat = LatDen
    /\ self.lon = 180
    /\ other.lon = -180

\* C8: two coordinates of identical latitude and different longitude are not
\* equal, neither is less than the other, and each is <= the other.
C8_SameLatitudeTies ==
    (BothCoordinates /\ self.lat = other.lat /\ self.lon # other.lon) =>
        /\ cmp.eq = "False"
        /\ cmp.req = "False"
        /\ cmp.lt = "False"
        /\ cmp.rlt = "False"
        /\ cmp.le = "True"
        /\ cmp.rle = "True"

(***************************************************************************)
(* Properties of filter_tensor                                             *)
(***************************************************************************)

Returned == pc = "returned"

\* the (latitude, altitude, cell) triples a tensor holds, whatever its layout
CellsOf(t) ==
    {[lat |-> Coord(t, "lat")[p[DimOf(t, "lat")]],
      alt |-> Coord(t, "alt")[p[DimOf(t, "alt")]],
      cell |-> t.data[p]] : p \in (1..t.shape[1]) \X (1..t.shape[2])}

\* x lies between the two bounds, given in either order
Between(x, bounds) ==
    \/ bounds[1] <= x /\ x <= bounds[2]
    \/ bounds[2] <= x /\ x <= bounds[1]

\* the cells of the input inside the box of the call: latitude in [low, high],
\* altitude in [min, max] of the altitude bounds
BoxCells ==
    {c \in CellsOf(data_tensor) :
        /\ call.latitudes[1] <= c.lat
        /\ c.lat <= call.latitudes[2]
        /\ Between(c.alt, call.altitudes)}

\* C1: filter_tensor returns exactly the cells of the input whose latitude
\* lies in [low, high] and whose altitude lies in [min, max] of the altitude
\* bounds, each with the value and the missing marker it had in the input,
\* for every grid, both sort axes and every pair of intervals.
C1_ExactBox ==
    Returned => (IsTensor(result) /\ CellsOf(result) = BoxCells)

\* C2 as stated: the result is the same with the bounds of either axis, or of
\* both, given in the other order.
C2_OrderIndependentBothAxes ==
    Returned =>
        LET la == call.latitudes
            al == call.altitudes
        IN  /\ result = filter_tensor(data_tensor, <<la[2], la[1]>>, al, call.sortby)
            /\ result = filter_tensor(data_tensor, la, <<al[2], al[1]>>, call.sortby)
            /\ result = filter_tensor(data_tensor, <<la[2], la[1]>>, <<al[2], al[1]>>,
                                      call.sortby)

\* C2 amended: the result (a grid or an exception) is the same with the
\* altitude bounds given in the other order.
C2_OrderIndependentAltitudes ==
    Returned =>
        result = filter_tensor(data_tensor, call.latitudes,
                               <<call.altitudes[2], call.altitudes[1]>>, call.sortby)

\* a call with the altitude bounds given high first that kept some cells
C2_Witness ==
    /\ Returned
    /\ call.altitudes[1] > call.altitudes[2]
    /\ IsTensor(result)
    /\ result.shape[1] > 0
    /\ result.shape[2] > 0

\* C3: latitude bounds (low <= high) that match no row give a grid with zero
\* positions, and altitude bounds that match no column a grid with zero
\* altitude entries, never an exception, whatever the order of the latitude
\* axis and the sort axis.
C3_EmptySelectionNoError ==
    Returned =>
        /\ (/\ call.latitudes[1] <= call.latitudes[2]
            /\ \A i \in 1..Len(data_tensor.lat) :
                   ~(call.latitudes[1] <= data_tensor.lat[i]
                         /\ data_tensor.lat[i] <= call.latitudes[2]))
             => (IsTensor(result) /\ Len(result.lat) = 0)
        /\ (\A j \in 1..Len(data_tensor.alt) :
                ~Between(data_tensor.alt[j], call.altitudes))
             => (IsTensor(result) /\ Len(result.alt) = 0)

\* C4: whenever filter_tensor returns, the result is altitude-major and
\* position-minor: its first axis is altitude, its second latitude, the cell
\* at <<j, i>> is the input cell of latitude lat[i] and altitude alt[j], and
\* the axis named by sortby is in ascending order.
C4_AltitudeMajor ==
    (Returned /\ IsTensor(result)) =>
        /\ result.dims = <<"alt", "lat">>
        /\ result.shape = <<Len(result.alt), Len(result.lat)>>
        /\ \A p \in (1..result.shape[1]) \X (1..result.shape[2]) :
               \E q \in (1..data_tensor.shape[1]) \X (1..data_tensor.shape[2]) :
                   /\ data_tensor.data[q] = result.data[p]
                   /\ data_tensor.lat[q[1]] = result.lat[p[2]]
                   /\ data_tensor.alt[q[2]] = result.alt[p[1]]
        /\ call.sortby = "lat" =>
               \A i \in 1..(Len(result.lat) - 1) : result.lat[i] <= result.lat[i + 1]
        /\ call.sortby = "alt" =>
               \A j \in 1..(Len(result.alt) - 1) : result.alt[j] <= result.alt[j + 1]

\* a result with different numbers of altitudes and positions, both several
C4_Witness ==
    /\ Returned
    /\ IsTensor(result)
    /\ result.shape[1] >= 2
    /\ result.shape[2] >= 2
    /\ result.shape[1] # result.shape[2]

(***************************************************************************)
(* The dimension invariant                                                 *)
(***************************************************************************)

\* C9: after any sequence of sortby, range selection, transpose and
\* filter_tensor steps on a created tensor, the data has as many entries along
\* each dimension as that dimension's coordinate has values.
C9_DimensionInvariant ==
    pc = "grid" =>
        /\ data_tensor.dims \in {<<"lat", "alt">>, <<"alt", "lat">>}
        /\ data_tensor.shape[1] = Len(Coord(data_tensor, data_tensor.dims[1]))
        /\ data_tensor.shape[2] = Len(Coord(data_tensor, data_tensor.dims[2]))
        /\ DOMAIN data_tensor.data =
               (1..data_tensor.shape[1]) \X (1..data_tensor.shape[2])

\* a grid with one axis emptied by a selection and then transposed
C9_Witness ==
    /\ pc = "grid"
    /\ call = "transpose"
    /\ data_tensor.dims = <<"lat", "alt">>
    /\ data_tensor.shape[1] > 0
    /\ data_tensor.shape[2] = 0

====
